---- MODULE Spec2Model ----
(***************************************************************************)
(* Model of the swim workout notation: lexer (src/src/lexer.rs), parser    *)
(* (src/src/parser.rs), AST (src/src/ast.rs) and analyser                  *)
(* (src/src/analyse.rs).                                                   *)
(*                                                                         *)
(* Text is a sequence of one-character strings.  A natural number is a     *)
(* little-endian sequence of base-256 limbs without leading zero limbs, so *)
(* that u32 values keep their 32-bit width (four limbs) and the exact      *)
(* value of a product or sum can be written down next to the u32 result.   *)
(***************************************************************************)
EXTENDS Integers, Sequences, FiniteSets, TLC

VARIABLES
    src,              \* the input text handed to Parser::new
    overflow_checks,  \* build profile: TRUE = debug (overflow panics), FALSE = release (wraps)
    tokens,           \* Parser.tokens
    current,          \* Parser.current
    sets,             \* the local `sets` of Parser::parse
    pc,               \* "parse" | "parsed" | "failed"
    result,           \* what Parser::parse returned
    total,            \* what Workout::total_distance returned
    dist              \* what Workout::stroke_distribution returned

vars == <<src, overflow_checks, tokens, current, sets, pc, result, total, dist>>

-----------------------------------------------------------------------------
(* Natural numbers as limb sequences *)

Base == 16 * 16

U32Limbs == 4

RECURSIVE Norm(_)
Norm(a) ==
    IF a = <<>> THEN <<>>
    ELSE IF a[Len(a)] = 0 THEN Norm(SubSeq(a, 1, Len(a) - 1))
    ELSE a

RECURSIVE N(_)
N(n) == IF n = 0 THEN <<>> ELSE <<n % Base>> \o N(n \div Base)

Rest(a) == IF a = <<>> THEN <<>> ELSE Tail(a)

Low(a) == IF a = <<>> THEN 0 ELSE Head(a)

RECURSIVE AddC(_, _, _)
AddC(a, b, c) ==
    IF a = <<>> /\ b = <<>> THEN (IF c = 0 THEN <<>> ELSE <<c>>)
    ELSE LET s == Low(a) + Low(b) + c
         IN  <<s % Base>> \o AddC(Rest(a), Rest(b), s \div Base)

AddN(a, b) == Norm(AddC(a, b, 0))

RECURSIVE MulD(_, _, _)
MulD(a, d, c) ==
    IF a = <<>> THEN (IF c = 0 THEN <<>> ELSE <<c>>)
    ELSE LET p == Head(a) * d + c
         IN  <<p % Base>> \o MulD(Tail(a), d, p \div Base)

RECURSIVE MulC(_, _)
MulC(a, b) ==
    IF b = <<>> THEN <<>>
    ELSE AddC(MulD(a, Head(b), 0), <<0>> \o MulC(a, Tail(b)), 0)

MulN(a, b) == Norm(MulC(a, b))

FitsU32(a) == Len(a) <= U32Limbs

WrapU32(a) == Norm(SubSeq(a, 1, IF Len(a) < U32Limbs THEN Len(a) ELSE U32Limbs))

-----------------------------------------------------------------------------
(* u32 arithmetic of the analyser: `*`, `+=` and Iterator::sum on u32.     *)
(* An overflow panics when the build checks overflow and wraps otherwise.  *)

Val(v) == [ok |-> TRUE, v |-> v]

Panic == [ok |-> FALSE, v |-> <<>>]

Checked(exact) ==
    IF FitsU32(exact) THEN Val(exact)
    ELSE IF overflow_checks THEN Panic
    ELSE Val(WrapU32(exact))

u32_mul(a, b) == Checked(MulN(a, b))

u32_add(a, b) == Checked(AddN(a, b))
-----------------------------------------------------------------------------
(* Lexer: the Logos token definitions of lexer.rs.  At each position the   *)
(* longest match wins and equal lengths are settled by priority.           *)

Digits == {"0", "1", "2", "3", "4", "5", "6", "7", "8", "9"}

Lower == {"a", "b", "c", "d", "e", "f", "g", "h", "i", "j", "k", "l", "m",
          "n", "o", "p", "q", "r", "s", "t", "u", "v", "w", "x", "y", "z"}

Upper == {"A", "B", "C", "D", "E", "F", "G", "H", "I", "J", "K", "L", "M",
          "N", "O", "P", "Q", "R", "S", "T", "U", "V", "W", "X", "Y", "Z"}

Alpha == Lower \cup Upper

WordChars == Alpha \cup {".", "-"}

Whitespace == {" ", "\t", "\n", "\r"}

DigitValue == [c \in Digits |->
    CASE c = "0" -> 0 [] c = "1" -> 1 [] c = "2" -> 2 [] c = "3" -> 3
      [] c = "4" -> 4 [] c = "5" -> 5 [] c = "6" -> 6 [] c = "7" -> 7
      [] c = "8" -> 8 [] c = "9" -> 9]

\* The first position at or after i whose character is outside `class`.
RunEnd(s, i, class) ==
    CHOOSE j \in i..(Len(s) + 1) :
        /\ \A k \in i..(j - 1) : s[k] \in class
        /\ j <= Len(s) => s[j] \notin class

\* The first position at or after i whose character is in `stop`.
RunUntil(s, i, stop) ==
    CHOOSE j \in i..(Len(s) + 1) :
        /\ \A k \in i..(j - 1) : s[k] \notin stop
        /\ j <= Len(s) => s[j] \in stop

\* The exact value of a run of decimal digits.
RECURSIVE DecimalValue(_, _)
DecimalValue(digits, acc) ==
    IF digits = <<>> THEN acc
    ELSE DecimalValue(Tail(digits), Norm(MulD(acc, 10, DigitValue[Head(digits)])))

\* The digit loop of u32::from_str: acc * 10 + digit with checked_mul and
\* checked_add, giving up at the first step whose value does not fit.
RECURSIVE from_str_radix(_, _)
from_str_radix(digits, acc) ==
    IF digits = <<>> THEN [ok |-> TRUE, v |-> acc]
    ELSE LET n == Norm(MulD(acc, 10, DigitValue[Head(digits)]))
         IN  IF FitsU32(n) THEN from_str_radix(Tail(digits), n)
             ELSE [ok |-> FALSE, v |-> <<>>]

\* The same loop with wrapping_mul and wrapping_add.
RECURSIVE from_str_radix_wrapping(_, _)
from_str_radix_wrapping(digits, acc) ==
    IF digits = <<>> THEN acc
    ELSE LET n == Norm(MulD(acc, 10, DigitValue[Head(digits)]))
         IN  IF FitsU32(n) THEN from_str_radix_wrapping(Tail(digits), n)
             ELSE from_str_radix_wrapping(Tail(digits), WrapU32(n))

\* str::parse::<u32>: digits only, at least one, and the value must fit.
parse_u32(text) ==
    IF text = <<>> \/ \E i \in 1..Len(text) : text[i] \notin Digits
    THEN [ok |-> FALSE, v |-> <<>>]
    ELSE from_str_radix(text, <<>>)

Tok(kind) == [k |-> kind]

TokNumber(n) == [k |-> "Number", n |-> n]

TokWord(w) == [k |-> "Word", s |-> w]

TokTime(t) == [k |-> "Time", s |-> t]

TokErr == [k |-> "Err"]

\* [0-9]+ with the callback parse::<u32>().ok(): a value that does not fit
\* makes the callback return None, which Logos reports as an error token.
NumberToken(text) ==
    LET r == parse_u32(text) IN IF r.ok THEN TokNumber(r.v) ELSE TokErr

\* The keywords win as soon as the text starts with one of them.
WordTokenByPrefix(text) ==
    IF Head(text) = "x" THEN Tok("Times")
    ELSE IF Head(text) = "m" THEN Tok("Meters")
    ELSE IF Len(text) >= 2 /\ SubSeq(text, 1, 2) = <<"k", "m">> THEN Tok("Kilometers")
    ELSE IF Head(text) = "s" THEN Tok("Seconds")
    ELSE TokWord(text)

\* The generic word pattern wins on every text.
WordTokenAlwaysWord(text) == TokWord(text)

\* [a-zA-Z][a-zA-Z.-]* (priority 2) against "x", "m", "km" (priority 4)
\* and "s" (priority 3) on the same text.
WordToken(text) ==
    IF text = <<"x">> THEN Tok("Times")
    ELSE IF text = <<"m">> THEN Tok("Meters")
    ELSE IF text = <<"k", "m">> THEN Tok("Kilometers")
    ELSE IF text = <<"s">> THEN Tok("Seconds")
    ELSE TokWord(text)

\* /\*([^*]|\*[^/])*\*/ from the position after "/*": the position after the
\* closing "*/", or 0 when the pattern does not match.
RECURSIVE CommentEnd(_, _)
CommentEnd(s, i) ==
    IF i > Len(s) THEN 0
    ELSE IF s[i] # "*" THEN CommentEnd(s, i + 1)
    ELSE IF i + 1 > Len(s) THEN 0
    ELSE IF s[i + 1] = "/" THEN i + 2
    ELSE CommentEnd(s, i + 2)

Emit(tok, end) == [skip |-> FALSE, tok |-> tok, end |-> end]

Skip(end) == [skip |-> TRUE, tok |-> TokErr, end |-> end]

\* The match at position i: the token (or skip) and the position after it.
Match(s, i) ==
    LET c  == s[i]
        c2 == IF i + 1 <= Len(s) THEN s[i + 1] ELSE ""
    IN  IF c \in Whitespace THEN Skip(RunEnd(s, i, Whitespace))
        ELSE IF c \in Digits THEN
            LET j == RunEnd(s, i, Digits)
            IN  IF j + 1 <= Len(s) /\ s[j] = ":" /\ s[j + 1] \in Digits
                THEN LET k == RunEnd(s, j + 1, Digits)
                         e == IF k <= Len(s) /\ s[k] = "s" THEN k + 1 ELSE k
                     IN  Emit(TokTime(SubSeq(s, i, e - 1)), e)
                ELSE Emit(NumberToken(SubSeq(s, i, j - 1)), j)
        ELSE IF c \in Alpha THEN
            LET j == RunEnd(s, i, WordChars)
            IN  Emit(WordToken(SubSeq(s, i, j - 1)), j)
        ELSE IF c = "{" THEN Emit(Tok("BraceOpen"), i + 1)
        ELSE IF c = "}" THEN Emit(Tok("BraceClose"), i + 1)
        ELSE IF c = "(" THEN Emit(Tok("ParenOpen"), i + 1)
        ELSE IF c = ")" THEN Emit(Tok("ParenClose"), i + 1)
        ELSE IF c = "," THEN Emit(Tok("Comma"), i + 1)
        ELSE IF c = "@" THEN Emit(Tok("At"), i + 1)
        ELSE IF c = "#" THEN Skip(RunUntil(s, i + 1, {"\n"}))
        ELSE IF c = "/" /\ c2 = "/" THEN Skip(RunUntil(s, i + 2, {"\n"}))
        ELSE IF c = "/" /\ c2 = "*" /\ CommentEnd(s, i + 2) # 0
             THEN Skip(CommentEnd(s, i + 2))
        ELSE Emit(TokErr, i + 1)

\* Token::lexer(input).collect()
RECURSIVE lexer(_, _)
lexer(s, i) ==
    IF i > Len(s) THEN <<>>
    ELSE LET m == Match(s, i)
         IN  IF m.skip THEN lexer(s, m.end)
             ELSE <<m.tok>> \o lexer(s, m.end)
-----------------------------------------------------------------------------
(* AST of ast.rs *)

Repetition(count, set) == [t |-> "Repetition", count |-> count, set |-> set]

Block(ss) == [t |-> "Block", sets |-> ss]

Distance(value, unit) == [value |-> value, unit |-> unit]

Stroke(name, modifiers) == [name |-> name, modifiers |-> modifiers]

NoInterval == [t |-> "None"]

Seconds(n) == [t |-> "Seconds", n |-> n]

MinutesSeconds(minutes, seconds) ==
    [t |-> "MinutesSeconds", minutes |-> minutes, seconds |-> seconds]

Statement(distance, stroke, interval) ==
    [t |-> "Statement", distance |-> distance, stroke |-> stroke,
     interval |-> interval]

Workout(ss) == [sets |-> ss]

-----------------------------------------------------------------------------
(* Parser of parser.rs.  The cursor `current` counts consumed tokens from  *)
(* 0; every parse function takes the token buffer and the cursor and       *)
(* returns its Result together with the cursor it leaves behind.           *)

NoToken == [k |-> "None"]

NoValue == [t |-> "None"]

Ok(v, cur) == [ok |-> TRUE, v |-> v, cur |-> cur, err |-> ""]

Err(msg, cur) == [ok |-> FALSE, v |-> NoValue, cur |-> cur, err |-> msg]

peek_nth(toks, cur, n) ==
    IF cur + n < Len(toks) THEN toks[cur + n + 1] ELSE NoToken

peek(toks, cur) == peek_nth(toks, cur, 0)

\* The cursor is advanced by every call, also at the end of the input.
next_past_end(toks, cur) ==
    IF cur >= Len(toks) THEN [tok |-> NoToken, cur |-> cur + 1]
    ELSE [tok |-> toks[cur + 1], cur |-> cur + 1]

\* Parser::next: the token under the cursor and the cursor after the call.
next(toks, cur) ==
    IF cur >= Len(toks) THEN [tok |-> NoToken, cur |-> cur]
    ELSE [tok |-> toks[cur + 1], cur |-> cur + 1]

\* A distance whose unit is missing is taken to be in meters.
parse_distance_default_unit(toks, cur) ==
    LET a == next(toks, cur)
    IN  IF a.tok.k # "Number" THEN Err("Expected number for distance", a.cur)
        ELSE LET b == next(toks, a.cur)
             IN  IF b.tok.k = "Kilometers"
                 THEN Ok(Distance(a.tok.n, "Kilometers"), b.cur)
                 ELSE IF b.tok.k = "Meters"
                 THEN Ok(Distance(a.tok.n, "Meters"), b.cur)
                 ELSE Ok(Distance(a.tok.n, "Meters"), a.cur)

parse_distance(toks, cur) ==
    LET a == next(toks, cur)
    IN  IF a.tok.k # "Number" THEN Err("Expected number for distance", a.cur)
        ELSE LET b == next(toks, a.cur)
             IN  IF b.tok.k = "Meters"
                 THEN Ok(Distance(a.tok.n, "Meters"), b.cur)
                 ELSE IF b.tok.k = "Kilometers"
                 THEN Ok(Distance(a.tok.n, "Kilometers"), b.cur)
                 ELSE Err("Expected 'm' or 'km' for distance unit", b.cur)

RECURSIVE modifier_loop(_, _, _, _)

\* A ')' where a modifier is expected ends the list.
modifier_loop_allows_empty(toks, cur, name, modifiers) ==
    LET a == next(toks, cur)
    IN  IF a.tok.k = "ParenClose" THEN Ok(Stroke(name, modifiers), a.cur)
        ELSE IF a.tok.k # "Word" THEN Err("Expected modifier in parentheses", a.cur)
        ELSE LET mods == Append(modifiers, a.tok.s)
                 p    == peek(toks, a.cur)
             IN  IF p.k = "Comma"
                 THEN modifier_loop(toks, next(toks, a.cur).cur, name, mods)
                 ELSE IF p.k = "ParenClose"
                 THEN Ok(Stroke(name, mods), next(toks, a.cur).cur)
                 ELSE Err("Expected ',' or ')' after modifier", a.cur)

\* The loop of parse_stroke, entered after '(' or ',' has been consumed.
modifier_loop(toks, cur, name, modifiers) ==
    LET a == next(toks, cur)
    IN  IF a.tok.k # "Word" THEN Err("Expected modifier in parentheses", a.cur)
        ELSE LET mods == Append(modifiers, a.tok.s)
                 p    == peek(toks, a.cur)
             IN  IF p.k = "Comma"
                 THEN modifier_loop(toks, next(toks, a.cur).cur, name, mods)
                 ELSE IF p.k = "ParenClose"
                 THEN Ok(Stroke(name, mods), next(toks, a.cur).cur)
                 ELSE Err("Expected ',' or ')' after modifier", a.cur)

parse_stroke(toks, cur) ==
    LET a == next(toks, cur)
    IN  IF a.tok.k # "Word" THEN Err("Expected stroke name", a.cur)
        ELSE IF peek(toks, a.cur).k = "ParenOpen"
             THEN modifier_loop(toks, next(toks, a.cur).cur, a.tok.s, <<>>)
             ELSE Ok(Stroke(a.tok.s, <<>>), a.cur)

\* str::split(':'): the parts of `text` between its colons, the first one
\* prefixed by `part`.
RECURSIVE split(_, _)
split(text, part) ==
    LET c == RunUntil(text, 1, {":"})
    IN  IF c > Len(text) THEN <<part \o text>>
        ELSE <<part \o SubSeq(text, 1, c - 1)>>
             \o split(SubSeq(text, c + 1, Len(text)), <<>>)

\* str::trim_end_matches('s')
RECURSIVE trim_end_matches_s(_)
trim_end_matches_s(text) ==
    IF text # <<>> /\ text[Len(text)] = "s"
    THEN trim_end_matches_s(SubSeq(text, 1, Len(text) - 1))
    ELSE text

\* A component that does not fit is cut to its low 32 bits.
parse_time_wrapping(time, cur) ==
    LET parts == split(time, <<>>)
    IN  IF Len(parts) # 2 THEN Err("Invalid time format", cur)
        ELSE Ok(MinutesSeconds(from_str_radix_wrapping(parts[1], <<>>),
                               from_str_radix_wrapping(trim_end_matches_s(parts[2]), <<>>)),
                cur)

\* The Token::Time arm of parse_interval.
parse_time(time, cur) ==
    LET parts == split(time, <<>>)
    IN  IF Len(parts) # 2 THEN Err("Invalid time format", cur)
        ELSE LET minutes == parse_u32(parts[1])
                 seconds == parse_u32(trim_end_matches_s(parts[2]))
             IN  IF ~minutes.ok THEN Err("Invalid minutes", cur)
                 ELSE IF ~seconds.ok THEN Err("Invalid seconds", cur)
                 ELSE Ok(MinutesSeconds(minutes.v, seconds.v), cur)

\* Whatever follows '@' and is no number or time is dropped with the '@'.
parse_interval_lenient(toks, cur) ==
    IF peek(toks, cur).k # "At" THEN Ok(NoInterval, cur)
    ELSE LET at == next(toks, cur)
             a  == next(toks, at.cur)
         IN  IF a.tok.k = "Number"
             THEN IF peek(toks, a.cur).k = "Seconds"
                  THEN Ok(Seconds(a.tok.n), next(toks, a.cur).cur)
                  ELSE Ok(Seconds(a.tok.n), a.cur)
             ELSE IF a.tok.k = "Time" THEN parse_time(a.tok.s, a.cur)
             ELSE Ok(NoInterval, a.cur)

\* The 's' after the number is left for the next set.
parse_interval_leaves_s(toks, cur) ==
    IF peek(toks, cur).k # "At" THEN Ok(NoInterval, cur)
    ELSE LET at == next(toks, cur)
             a  == next(toks, at.cur)
         IN  IF a.tok.k = "Number" THEN Ok(Seconds(a.tok.n), a.cur)
             ELSE IF a.tok.k = "Time" THEN parse_time(a.tok.s, a.cur)
             ELSE Err("Expected number or time after '@'", a.cur)

parse_interval(toks, cur) ==
    IF peek(toks, cur).k # "At" THEN Ok(NoInterval, cur)
    ELSE LET at == next(toks, cur)
             a  == next(toks, at.cur)
         IN  IF a.tok.k = "Number"
             THEN IF peek(toks, a.cur).k = "Seconds"
                  THEN Ok(Seconds(a.tok.n), next(toks, a.cur).cur)
                  ELSE Ok(Seconds(a.tok.n), a.cur)
             ELSE IF a.tok.k = "Time" THEN parse_time(a.tok.s, a.cur)
             ELSE Err("Expected number or time after '@'", a.cur)

parse_statement(toks, cur) ==
    LET distance == parse_distance(toks, cur)
    IN  IF ~distance.ok THEN distance
        ELSE LET stroke == parse_stroke(toks, distance.cur)
             IN  IF ~stroke.ok THEN stroke
                 ELSE LET interval == parse_interval(toks, stroke.cur)
                      IN  IF ~interval.ok THEN interval
                          ELSE Ok(Statement(distance.v, stroke.v, interval.v),
                                  interval.cur)

RECURSIVE parse_set(_, _)
RECURSIVE parse_repetition(_, _)
RECURSIVE parse_block(_, _)
RECURSIVE block_loop(_, _, _)

\* Dispatch on the first token alone, then fall back to the other
\* production when the first one fails.
parse_set_retrying(toks, cur) ==
    IF peek(toks, cur).k = "Number"
    THEN LET r == parse_repetition(toks, cur)
         IN  IF r.ok THEN r ELSE parse_statement(toks, cur)
    ELSE IF peek(toks, cur).k = "BraceOpen" THEN parse_block(toks, cur)
    ELSE Err("Expected number or '{'", cur)

parse_set(toks, cur) ==
    IF peek(toks, cur).k = "Number"
    THEN IF peek_nth(toks, cur, 1).k = "Times"
         THEN parse_repetition(toks, cur)
         ELSE parse_statement(toks, cur)
    ELSE IF peek(toks, cur).k = "BraceOpen" THEN parse_block(toks, cur)
    ELSE Err("Expected number or '{'", cur)

parse_repetition(toks, cur) ==
    LET a == next(toks, cur)
    IN  IF a.tok.k # "Number"
        THEN Err("Expected number for repetition count", a.cur)
        ELSE LET b == next(toks, a.cur)
             IN  IF b.tok.k # "Times"
                 THEN Err("Expected 'x' after repetition count", b.cur)
                 ELSE LET set == parse_set(toks, b.cur)
                      IN  IF ~set.ok THEN set
                          ELSE Ok(Repetition(a.tok.n, set.v), set.cur)

\* The end of the input closes every block that is still open.
block_loop_closes_at_end(toks, cur, ss) ==
    LET p == peek(toks, cur)
    IN  IF p.k = "BraceClose" THEN Ok(Block(ss), next(toks, cur).cur)
        ELSE IF p.k # "None"
        THEN LET set == parse_set(toks, cur)
             IN  IF ~set.ok THEN set
                 ELSE block_loop(toks, set.cur, Append(ss, set.v))
        ELSE Ok(Block(ss), cur)

\* The loop of parse_block, entered after '{' has been consumed.
block_loop(toks, cur, ss) ==
    LET p == peek(toks, cur)
    IN  IF p.k = "BraceClose" THEN Ok(Block(ss), next(toks, cur).cur)
        ELSE IF p.k # "None"
        THEN LET set == parse_set(toks, cur)
             IN  IF ~set.ok THEN set
                 ELSE block_loop(toks, set.cur, Append(ss, set.v))
        ELSE Err("Unexpected end of input in block", cur)

parse_block(toks, cur) ==
    LET a == next(toks, cur)
    IN  IF a.tok.k # "BraceOpen" THEN Err("Expected '{'", a.cur)
        ELSE block_loop(toks, a.cur, <<>>)
-----------------------------------------------------------------------------
(* Analyser of analyse.rs.  A total is Val(v) or Panic; a distribution is  *)
(* Dist(m) with m a function from stroke names to u32 values, or NoDist    *)
(* when the computation panicked.                                          *)

Thousand == N(1000)

Dist(m) == [ok |-> TRUE, m |-> m]

NoDist == [ok |-> FALSE, m |-> <<>>]

EmptyMap == [n \in {} |-> <<>>]

\* impl Analyse for Statement: the match on distance.unit.
Statement_meters(stmt) ==
    IF stmt.distance.unit = "Meters" THEN Val(stmt.distance.value)
    ELSE u32_mul(stmt.distance.value, Thousand)

Statement_total_distance(stmt) == Statement_meters(stmt)

Statement_stroke_distribution(stmt) ==
    LET distance == Statement_meters(stmt)
    IN  IF ~distance.ok THEN NoDist
        ELSE Dist([n \in {stmt.stroke.name} |-> distance.v])

RECURSIVE Set_total_distance(_)
RECURSIVE sum_total_distance(_, _)

\* Iterator::sum over the children's total_distance, from the accumulator.
sum_total_distance(ss, acc) ==
    IF ss = <<>> THEN Val(acc)
    ELSE LET d == Set_total_distance(Head(ss))
         IN  IF ~d.ok THEN Panic
             ELSE LET a == u32_add(acc, d.v)
                  IN  IF ~a.ok THEN Panic
                      ELSE sum_total_distance(Tail(ss), a.v)

Set_total_distance(set) ==
    IF set.t = "Repetition"
    THEN LET d == Set_total_distance(set.set)
         IN  IF ~d.ok THEN Panic ELSE u32_mul(set.count, d.v)
    ELSE IF set.t = "Block" THEN sum_total_distance(set.sets, <<>>)
    ELSE Statement_total_distance(set)

Workout_total_distance(workout) == sum_total_distance(workout.sets, <<>>)

\* for (stroke, distance) in set_dist { *distribution.entry(stroke).or_insert(0) += distance }
merge(distribution, set_dist) ==
    LET entry(n) == IF n \in DOMAIN distribution THEN distribution[n] ELSE <<>>
        added(n) == IF n \in DOMAIN set_dist
                    THEN u32_add(entry(n), set_dist[n]) ELSE Val(entry(n))
        keys     == DOMAIN distribution \cup DOMAIN set_dist
    IN  IF \E n \in keys : ~added(n).ok THEN NoDist
        ELSE Dist([n \in keys |-> added(n).v])

\* A slip of `*=` into `+=`.
scale_adds(dist_map, count) ==
    IF \E n \in DOMAIN dist_map : ~u32_add(dist_map[n], count).ok THEN NoDist
    ELSE Dist([n \in DOMAIN dist_map |-> u32_add(dist_map[n], count).v])

\* Entries that become 0 are removed from the map.
scale_drops_zero(dist_map, count) ==
    IF \E n \in DOMAIN dist_map : ~u32_mul(dist_map[n], count).ok THEN NoDist
    ELSE Dist([n \in {k \in DOMAIN dist_map : u32_mul(dist_map[k], count).v # <<>>}
                 |-> u32_mul(dist_map[n], count).v])

\* for distance in dist.values_mut() { *distance *= count }
scale(dist_map, count) ==
    IF \E n \in DOMAIN dist_map : ~u32_mul(dist_map[n], count).ok THEN NoDist
    ELSE Dist([n \in DOMAIN dist_map |-> u32_mul(dist_map[n], count).v])

RECURSIVE Set_stroke_distribution(_)
RECURSIVE merge_all(_, _)

\* The loop `for set in sets` of Block and Workout, from `distribution`.
merge_all(ss, distribution) ==
    IF ss = <<>> THEN Dist(distribution)
    ELSE LET set_dist == Set_stroke_distribution(Head(ss))
         IN  IF ~set_dist.ok THEN NoDist
             ELSE LET merged == merge(distribution, set_dist.m)
                  IN  IF ~merged.ok THEN NoDist
                      ELSE merge_all(Tail(ss), merged.m)

Set_stroke_distribution(set) ==
    IF set.t = "Repetition"
    THEN LET d == Set_stroke_distribution(set.set)
         IN  IF ~d.ok THEN NoDist ELSE scale(d.m, set.count)
    ELSE IF set.t = "Block" THEN merge_all(set.sets, EmptyMap)
    ELSE Statement_stroke_distribution(set)

Workout_stroke_distribution(workout) == merge_all(workout.sets, EmptyMap)
-----------------------------------------------------------------------------
(* Inputs.  A program text is a sequence of lexemes joined by single       *)
(* spaces; the families below are the texts the specifications start from. *)

MaxNodes == 4

MaxProgNodes == 2

MaxShort == 3

MaxWordLen == 3

MaxText == 3

\* Characters between the delimiters of a comment.
MaxComment == 3

RECURSIVE Join(_)
Join(ls) ==
    IF ls = <<>> THEN <<>>
    ELSE IF Len(ls) = 1 THEN ls[1]
    ELSE ls[1] \o <<" ">> \o Join(Tail(ls))

\* Sequences over S of length at most n.
RECURSIVE SeqsUpTo(_, _)
SeqsUpTo(S, n) ==
    IF n = 0 THEN {<<>>}
    ELSE LET shorter == SeqsUpTo(S, n - 1)
         IN  shorter \cup {Append(q, x) : q \in {r \in shorter : Len(r) = n - 1}, x \in S}

\* Programs as lexeme sequences: single sets and sequences of sets with
\* exactly n nodes, over the statements `leaves` and the counts `counts`.
RECURSIVE SetsOfSize(_, _, _)
RECURSIVE ForestsOfSize(_, _, _)

SetsOfSize(n, leaves, counts) ==
    IF n = 0 THEN {}
    ELSE (IF n = 1 THEN leaves ELSE {})
         \cup {<<c, <<"x">>>> \o p : c \in counts, p \in SetsOfSize(n - 1, leaves, counts)}
         \cup {<<<<"{">>>> \o f \o <<<<"}">>>> : f \in ForestsOfSize(n - 1, leaves, counts)}

ForestsOfSize(n, leaves, counts) ==
    IF n = 0 THEN {<<>>}
    ELSE UNION {{p \o f : p \in SetsOfSize(k, leaves, counts),
                          f \in ForestsOfSize(n - k, leaves, counts)} : k \in 1..n}

Programs(n, leaves, counts) ==
    UNION {ForestsOfSize(k, leaves, counts) : k \in 0..n}

\* Family A: well-formed workouts whose numbers reach the u32 limits.
AnalyseLeaves ==
    { <<<<"1">>, <<"m">>, <<"a">>>>,
      <<<<"4", "2", "9", "4", "9", "6", "7">>, <<"k", "m">>, <<"a">>>>,
      <<<<"2", "1", "4", "7", "4", "8", "3", "6", "4", "8">>, <<"m">>, <<"b">>>>,
      <<<<"4", "2", "9", "4", "9", "6", "8">>, <<"k", "m">>, <<"b">>>> }

AnalyseCounts == { <<"0">>, <<"2">>, <<"3">> }

AnalyseSources(n) == {Join(p) : p \in Programs(n, AnalyseLeaves, AnalyseCounts)}

\* Family P: every short lexeme sequence, every well-formed program of up
\* to n + 1 nodes, and every well-formed program of up to n nodes with one
\* lexeme deleted, replaced or inserted.
Vocabulary ==
    { <<"2">>, <<"x">>, <<"{">>, <<"}">>, <<"m">>, <<"k", "m">>, <<"a">>,
      <<"(">>, <<")">>, <<",">>, <<"@">>, <<"s">>, <<"1", ":", "3", "0">>,
      <<"4", "2", "9", "4", "9", "6", "7", "2", "9", "6", ":", "5">>,
      <<"1", ":", "x">>, <<"$">> }

ParseLeaves ==
    { <<<<"2">>, <<"m">>, <<"a">>>>,
      <<<<"7">>, <<"k", "m">>, <<"a">>, <<"(">>, <<"b">>, <<",">>, <<"c">>, <<")">>>>,
      <<<<"2">>, <<"m">>, <<"b">>, <<"@">>, <<"5">>, <<"s">>>>,
      <<<<"2">>, <<"m">>, <<"b">>, <<"@">>, <<"1", ":", "3", "0">>>> }

ParseCounts == { <<"3">> }

Edits(p) ==
    {p}
    \cup {SubSeq(p, 1, i - 1) \o SubSeq(p, i + 1, Len(p)) : i \in 1..Len(p)}
    \cup {[p EXCEPT ![i] = l] : i \in 1..Len(p), l \in Vocabulary}
    \cup {SubSeq(p, 1, i) \o <<l>> \o SubSeq(p, i + 1, Len(p)) :
            i \in 0..Len(p), l \in Vocabulary}

ParseSources(short, n) ==
    {Join(p) : p \in SeqsUpTo(Vocabulary, short)}
    \cup {Join(p) : p \in Programs(n + 1, ParseLeaves, ParseCounts)}
    \cup {Join(q) : q \in UNION {Edits(p) : p \in Programs(n, ParseLeaves, ParseCounts)}}

\* Family L: "<int>m <word>" for every word over a small alphabet, and
\* every short text.
WordAlphabet == {"x", "m", "k", "s", "a", "S", ".", "-"}

TextAlphabet ==
    {"1", ":", "s", "m", "k", "x", "a", ".", " ", "/", "*", "#", "\n", "@", "$"}

LexInts == { <<"1">>, <<"2", "5">>, <<"4", "2", "9", "4", "9", "6", "7", "2", "9", "6">> }

Words(n) == {w \in SeqsUpTo(WordAlphabet, n) : w # <<>> /\ w[1] \in Alpha}

LexSources(wordlen, textlen) ==
    {int \o <<"m", " ">> \o w : int \in LexInts, w \in Words(wordlen)}
    \cup SeqsUpTo(TextAlphabet, textlen)

\* Family K: a comment of each of the three forms, with every short body,
\* between two tokens, before a statement, after tokens, and alone.
CommentAlphabet == {"*", "/", "a", "#", "\n"}

Comments(n) ==
    UNION {{<<"#">> \o b, <<"#">> \o b \o <<"\n">>,
            <<"/", "/">> \o b, <<"/", "/">> \o b \o <<"\n">>,
            <<"/", "*">> \o b \o <<"*", "/">>} : b \in SeqsUpTo(CommentAlphabet, n)}

CommentSources(n) ==
    {pre \o c \o post : pre \in {<<>>, <<"2", " ", "x">>},
                        c \in Comments(n),
                        post \in {<<>>, <<"1", "m", " ", "a">>}}

\* Family T: "<int>:<int>" alone and with what may follow it directly.
TimeSources ==
    {a \o <<":">> \o b \o suffix :
        a \in LexInts, b \in LexInts,
        suffix \in {<<>>, <<"s">>, <<"s", "s">>, <<" ", "s">>, <<"s", "x">>,
                    <<":">>, <<":", "1">>}}

\* Family I: a statement, alone, repeated or in a block, that ends in '@'
\* and a time "<int>:<int>" with what may follow it directly.
TimeInts ==
    LexInts \cup { <<"7", "5">>, <<"0", "5">>,
                   <<"4", "2", "9", "4", "9", "6", "7", "2", "9", "5">> }

IntervalSources ==
    {<<"2", "m", " ", "a", "@">> \o a \o <<":">> \o b \o suffix :
        a \in TimeInts, b \in TimeInts,
        suffix \in {<<>>, <<"s">>, <<" ", "s">>, <<"s", "s">>}}
    \cup {<<"3", "x", "{", "2", "m", " ", "a", "@">> \o a \o <<":">> \o b \o <<"s", "}">> :
            a \in TimeInts, b \in TimeInts}

-----------------------------------------------------------------------------
(* The pipeline: Parser::new, Parser::parse, then the two analyses.        *)

NoResult == [returned |-> FALSE]

NotCalled == [called |-> FALSE]

InitFrom(sources) ==
    /\ src \in sources
    /\ overflow_checks \in BOOLEAN
    /\ tokens = lexer(src, 1)
    /\ current = 0
    /\ sets = <<>>
    /\ pc = "parse"
    /\ result = NoResult
    /\ total = NotCalled
    /\ dist = NotCalled

\* The loop stops at the first failure and returns what it has parsed.
ParseLoopKeepsPartial ==
    /\ pc = "parse"
    /\ peek(tokens, current).k # "None"
    /\ LET set == parse_set(tokens, current)
       IN  /\ current' = set.cur
           /\ IF set.ok
              THEN /\ sets' = Append(sets, set.v)
                   /\ UNCHANGED <<pc, result>>
              ELSE /\ sets' = <<>>
                   /\ pc' = "parsed"
                   /\ result' = [returned |-> TRUE, ok |-> TRUE, workout |-> Workout(sets)]
    /\ UNCHANGED <<src, overflow_checks, tokens, total, dist>>

\* One iteration of `while self.peek().is_some() { sets.push(self.parse_set()?) }`.
ParseLoop ==
    /\ pc = "parse"
    /\ peek(tokens, current).k # "None"
    /\ LET set == parse_set(tokens, current)
       IN  /\ current' = set.cur
           /\ IF set.ok
              THEN /\ sets' = Append(sets, set.v)
                   /\ UNCHANGED <<pc, result>>
              ELSE /\ sets' = <<>>
                   /\ pc' = "failed"
                   /\ result' = [returned |-> TRUE, ok |-> FALSE, err |-> set.err]
    /\ UNCHANGED <<src, overflow_checks, tokens, total, dist>>

\* The loop ends and parse returns Ok(Workout { sets }).
ParseReturn ==
    /\ pc = "parse"
    /\ peek(tokens, current).k = "None"
    /\ pc' = "parsed"
    /\ result' = [returned |-> TRUE, ok |-> TRUE, workout |-> Workout(sets)]
    /\ sets' = <<>>
    /\ UNCHANGED <<src, overflow_checks, tokens, current, total, dist>>

TotalDistance ==
    /\ pc = "parsed"
    /\ ~total.called
    /\ LET d == Workout_total_distance(result.workout)
       IN  total' = [called |-> TRUE, ok |-> d.ok, v |-> d.v]
    /\ UNCHANGED <<src, overflow_checks, tokens, current, sets, pc, result, dist>>

StrokeDistribution ==
    /\ pc = "parsed"
    /\ ~dist.called
    /\ LET d == Workout_stroke_distribution(result.workout)
       IN  dist' = [called |-> TRUE, ok |-> d.ok, m |-> d.m]
    /\ UNCHANGED <<src, overflow_checks, tokens, current, sets, pc, result, total>>

Next == ParseLoop \/ ParseReturn \/ TotalDistance \/ StrokeDistribution

Init == InitFrom(ParseSources(MaxShort, MaxProgNodes))

Spec == Init /\ [][Next]_vars

InitLex ==
    InitFrom(LexSources(MaxWordLen, MaxText) \cup CommentSources(MaxComment)
             \cup TimeSources)

SpecLex == InitLex /\ [][Next]_vars

InitInterval == InitFrom(IntervalSources)

SpecInterval == InitInterval /\ [][Next]_vars

InitAnalyse == InitFrom(AnalyseSources(MaxNodes))

SpecAnalyse == InitAnalyse /\ [][Next]_vars
-----------------------------------------------------------------------------
(* Exact reference values, in unbounded naturals, computed top-down: every *)
(* Statement leaf with the product of the counts of the Repetitions around *)
(* it.                                                                     *)

MaxCopies == 3

RECURSIVE SumN(_)
SumN(ns) == IF ns = <<>> THEN <<>> ELSE AddN(Head(ns), SumN(Tail(ns)))

RECURSIVE Flatten(_)
Flatten(ss) == IF ss = <<>> THEN <<>> ELSE Head(ss) \o Flatten(Tail(ss))

ExactMeters(stmt) ==
    IF stmt.distance.unit = "Kilometers" THEN MulN(stmt.distance.value, N(1000))
    ELSE stmt.distance.value

\* The leaves of `set` as [name, exact], where exact = meters * mult * counts.
RECURSIVE LeafTerms(_, _)
LeafTerms(set, mult) ==
    IF set.t = "Repetition" THEN LeafTerms(set.set, MulN(mult, set.count))
    ELSE IF set.t = "Block"
    THEN Flatten([i \in 1..Len(set.sets) |-> LeafTerms(set.sets[i], mult)])
    ELSE <<[name |-> set.stroke.name, exact |-> MulN(ExactMeters(set), mult)]>>

WorkoutLeafTerms(workout) == LeafTerms(Block(workout.sets), <<1>>)

ExactTotal(terms) == SumN([i \in 1..Len(terms) |-> terms[i].exact])

ExactDistribution(terms) ==
    [n \in {terms[i].name : i \in 1..Len(terms)} |->
        SumN([i \in 1..Len(terms) |->
                IF terms[i].name = n THEN terms[i].exact ELSE <<>>])]

\* Every node of the tree `set`, the root included.
RECURSIVE Nodes(_)
Nodes(set) ==
    {set} \cup
    (IF set.t = "Repetition" THEN Nodes(set.set)
     ELSE IF set.t = "Block"
     THEN UNION {Nodes(set.sets[i]) : i \in 1..Len(set.sets)}
     ELSE {})

WorkoutNodes(workout) == UNION {Nodes(workout.sets[i]) : i \in 1..Len(workout.sets)}

Parsed == result.returned /\ result.ok

TotalReturned == total.called /\ total.ok

DistReturned == dist.called /\ dist.ok

\* The sum of the values of a distribution, in unbounded naturals.
RECURSIVE SumValues(_)
SumValues(m) ==
    IF DOMAIN m = {} THEN <<>>
    ELSE LET n == CHOOSE x \in DOMAIN m : TRUE
         IN  AddN(m[n], SumValues([k \in DOMAIN m \ {n} |-> m[k]]))

-----------------------------------------------------------------------------
\* C1: total_distance obeys the recursive law (Repetition = count * child,
\* Block and Workout = sum of the children) and equals the sum over all
\* Statement leaves of meters times the product of the enclosing counts.
C1_TotalDistanceLaw ==
    /\ TotalReturned =>
          total.v = ExactTotal(WorkoutLeafTerms(result.workout))
    /\ Parsed =>
          \A node \in WorkoutNodes(result.workout) :
             LET d == Set_total_distance(node)
             IN  d.ok =>
                   /\ node.t = "Repetition" =>
                         d.v = MulN(node.count, Set_total_distance(node.set).v)
                   /\ node.t = "Block" =>
                         d.v = SumN([i \in 1..Len(node.sets) |->
                                       Set_total_distance(node.sets[i]).v])

\* C2: stroke_distribution maps each stroke name to the sum over the leaves
\* of that name of meters times the product of the enclosing counts.
C2_DistributionIsLeafSum ==
    DistReturned => dist.m = ExactDistribution(WorkoutLeafTerms(result.workout))

\* C3: the values of stroke_distribution sum to total_distance.
C3_ValuesSumToTotal ==
    TotalReturned /\ DistReturned => SumValues(dist.m) = total.v

\* C5: a Kilometers statement contributes exactly value * 1000 and a Meters
\* statement exactly value, to the total and to its stroke's entry, and the
\* stored Distance keeps the value and unit as written.
C5_UnitConversion ==
    Parsed /\ Len(result.workout.sets) = 1 /\ result.workout.sets[1].t = "Statement" =>
       LET stmt  == result.workout.sets[1]
           exact == IF tokens[2].k = "Kilometers"
                    THEN MulN(tokens[1].n, N(1000)) ELSE tokens[1].n
       IN  /\ stmt.distance.value = tokens[1].n
           /\ stmt.distance.unit = tokens[2].k
           /\ TotalReturned => total.v = exact
           /\ DistReturned => dist.m = [n \in {stmt.stroke.name} |-> exact]

\* The same statements restricted to runs in which no u32 operation
\* overflowed (a build with overflow checks that did not panic).
ExactWhenNoOverflow ==
    overflow_checks =>
       /\ C1_TotalDistanceLaw
       /\ C2_DistributionIsLeafSum
       /\ C3_ValuesSumToTotal
       /\ C5_UnitConversion

-----------------------------------------------------------------------------
\* The child subtree replicated k times and merged as a Block merges its
\* children.
Replicated(set, k) == Set_stroke_distribution(Block([i \in 1..k |-> set]))

\* The Repetition nodes of the parsed workout whose count is k.
RepetitionsWithCount(k) ==
    {node \in WorkoutNodes(result.workout) : node.t = "Repetition" /\ node.count = N(k)}

ScaleMatchesReplication(k) ==
    /\ \A node \in RepetitionsWithCount(k) :
          Set_stroke_distribution(node) = Replicated(node.set, k)
    /\ dist.called /\ Len(result.workout.sets) = 1
         /\ result.workout.sets[1] \in RepetitionsWithCount(k) =>
          [ok |-> dist.ok, m |-> dist.m] = Replicated(result.workout.sets[1].set, k)

\* C4 as stated: under a Repetition, multiplying the child's distribution by
\* count gives the same mapping as replicating the child count times and
\* merging, for every count >= 0.
C4_ScaleEqualsReplication ==
    Parsed => \A k \in 0..MaxCopies : ScaleMatchesReplication(k)

\* C4 amended: the same for every count >= 1.  (With count 0 the code keeps
\* the child's keys with value 0 while zero replicas merge to the empty map.)
C4_ScaleEqualsReplicationFromOne ==
    Parsed => \A k \in 1..MaxCopies : ScaleMatchesReplication(k)

\* A workout that is one Repetition, with count 3, of a Block of two sets,
\* whose distribution has been computed.
C4_Witness ==
    /\ Parsed /\ DistReturned
    /\ Len(result.workout.sets) = 1
    /\ result.workout.sets[1] \in RepetitionsWithCount(3)
    /\ result.workout.sets[1].set.t = "Block"
    /\ Len(result.workout.sets[1].set.sets) = 2
    /\ DOMAIN dist.m # {}

-----------------------------------------------------------------------------
(* Parser claims *)

Failed == result.returned /\ ~result.ok

SetStart == {"Number", "BraceOpen"}

Units == {"Meters", "Kilometers"}

\* What parse_set does when called with the cursor at i.
DispatchAt(i) ==
    LET r  == parse_set(tokens, i)
        t0 == peek_nth(tokens, i, 0)
        t1 == peek_nth(tokens, i, 1)
        t2 == peek_nth(tokens, i, 2)
    IN  /\ t0.k = "Number" /\ t1.k = "Times" =>
              /\ r.ok => r.v.t = "Repetition" /\ r.v.count = t0.n
              /\ r.cur >= i + 2
              /\ t2.k \notin SetStart =>
                    ~r.ok /\ r.err = "Expected number or '{'" /\ r.cur = i + 2
        /\ t0.k = "Number" /\ t1.k # "Times" =>
              /\ r.ok => r.v.t = "Statement" /\ r.v.distance.value = t0.n
              /\ t1.k \notin Units =>
                    /\ ~r.ok /\ r.err = "Expected 'm' or 'km' for distance unit"
                    /\ r.cur = IF t1.k = "None" THEN i + 1 ELSE i + 2
        /\ t0.k = "BraceOpen" =>
              /\ r.ok => r.v.t = "Block"
              /\ r.cur >= i + 1
              /\ t1.k = "None" =>
                    ~r.ok /\ r.err = "Unexpected end of input in block" /\ r.cur = i + 1
              /\ t1.k \notin SetStart \cup {"BraceClose", "None"} =>
                    ~r.ok /\ r.err = "Expected number or '{'" /\ r.cur = i + 1
        /\ t0.k \notin SetStart =>
              ~r.ok /\ r.err = "Expected number or '{'" /\ r.cur = i

\* C6: parse_set dispatches on lookahead only: Number then Times builds a
\* Repetition, Number then anything else parses a Statement, BraceOpen
\* parses a Block, every other leading token (or the end of input) is an
\* Err that consumes nothing, and a failure inside the chosen production is
\* the result (its message, its cursor), not a retry of another production.
C6_Dispatch ==
    /\ result.returned => \A i \in 0..Len(tokens) : DispatchAt(i)
    /\ Failed /\ result.err = "Expected number or '{'" =>
          peek(tokens, current).k \notin SetStart

\* parse failed in a repetition whose count and 'x' were consumed and whose
\* body does not start a set.
C6_Witness ==
    /\ Failed /\ result.err = "Expected number or '{'"
    /\ current = 2
    /\ Len(tokens) >= 3
    /\ tokens[1].k = "Number" /\ tokens[2].k = "Times" /\ tokens[3].k = "Meters"

\* "M:S" or "M:Ss" with both numbers fitting a u32.
WellFormedTime(text) ==
    LET parts == split(text, <<>>)
    IN  /\ Len(parts) = 2
        /\ parse_u32(parts[1]).ok
        /\ parse_u32(trim_end_matches_s(parts[2])).ok

Follows(i, kinds) == i < Len(tokens) /\ tokens[i + 1].k \in kinds

\* C7: parse never returns Ok when a Number that is neither a repetition
\* count (followed by 'x') nor an interval (after '@') is not followed by a
\* unit, when a unit is not followed by a Word, or when '@' is not followed
\* by a Number or a well-formed Time.
C7_MalformedStatementFails ==
    Parsed =>
       \A i \in 1..Len(tokens) :
          /\ tokens[i].k = "Number" /\ (i = 1 \/ tokens[i - 1].k # "At") =>
                Follows(i, Units \cup {"Times"})
          /\ tokens[i].k \in Units => Follows(i, {"Word"})
          /\ tokens[i].k = "At" =>
                /\ Follows(i, {"Number", "Time"})
                /\ tokens[i + 1].k = "Time" => WellFormedTime(tokens[i + 1].s)

\* parse failed on a count without 'x' ("2 2 m a"): the unit is missing
\* after the leading Number.
C7_Witness ==
    /\ Failed /\ result.err = "Expected 'm' or 'km' for distance unit"
    /\ Len(tokens) >= 2
    /\ tokens[1].k = "Number" /\ tokens[2].k = "Number"

\* C8: a token sequence with a lexing-failure slot never parses to Ok.
C8_FailedTokenFails ==
    result.returned /\ (\E i \in 1..Len(tokens) : tokens[i].k = "Err") => ~result.ok

\* parse failed on a failed token that sits inside a block, after a
\* complete statement.
C8_Witness ==
    /\ Failed
    /\ Len(tokens) >= 5
    /\ tokens[1].k = "BraceOpen" /\ tokens[2].k = "Number" /\ tokens[3].k \in Units
    /\ tokens[4].k = "Word" /\ tokens[5].k = "Err"
    /\ current = 4

-----------------------------------------------------------------------------
\* A Time token as the AST records it.
TimeValue(text) ==
    LET parts == split(text, <<>>)
    IN  [k |-> "Time", minutes |-> parse_u32(parts[1]).v,
         seconds |-> parse_u32(trim_end_matches_s(parts[2])).v]

\* The tokens from position i on as an AST can record them: the optional
\* Seconds after an interval number is dropped and a Time is its two numbers.
RECURSIVE Recorded(_, _)
Recorded(toks, i) ==
    IF i > Len(toks) THEN <<>>
    ELSE IF /\ toks[i].k = "Seconds" /\ i >= 3
            /\ toks[i - 1].k = "Number" /\ toks[i - 2].k = "At"
    THEN Recorded(toks, i + 1)
    ELSE IF toks[i].k = "Time" THEN <<TimeValue(toks[i].s)>> \o Recorded(toks, i + 1)
    ELSE <<toks[i]>> \o Recorded(toks, i + 1)

ModifierTokens(modifiers) ==
    IF modifiers = <<>> THEN <<>>
    ELSE <<Tok("ParenOpen")>>
         \o Flatten([i \in 1..Len(modifiers) |->
                       IF i = 1 THEN <<TokWord(modifiers[i])>>
                       ELSE <<Tok("Comma"), TokWord(modifiers[i])>>])
         \o <<Tok("ParenClose")>>

IntervalTokens(interval) ==
    IF interval.t = "None" THEN <<>>
    ELSE IF interval.t = "Seconds" THEN <<Tok("At"), TokNumber(interval.n)>>
    ELSE <<Tok("At"), [k |-> "Time", minutes |-> interval.minutes,
                       seconds |-> interval.seconds]>>

\* The tokens an AST node stands for, in source order.
RECURSIVE TokensOf(_)
TokensOf(set) ==
    IF set.t = "Repetition"
    THEN <<TokNumber(set.count), Tok("Times")>> \o TokensOf(set.set)
    ELSE IF set.t = "Block"
    THEN <<Tok("BraceOpen")>>
         \o Flatten([i \in 1..Len(set.sets) |-> TokensOf(set.sets[i])])
         \o <<Tok("BraceClose")>>
    ELSE <<TokNumber(set.distance.value), Tok(set.distance.unit),
           TokWord(set.stroke.name)>>
         \o ModifierTokens(set.stroke.modifiers)
         \o IntervalTokens(set.interval)

WorkoutTokens(workout) ==
    Flatten([i \in 1..Len(workout.sets) |-> TokensOf(workout.sets[i])])

Count(toks, kind) == Cardinality({i \in 1..Len(toks) : toks[i].k = kind})

\* Where a failure with message msg leaves the cursor: `last` is the token
\* consumed last, `nxt` the token the cursor is at.
FailureSite(msg, cur) ==
    LET last   == IF cur >= 1 THEN tokens[cur] ELSE NoToken
        before == IF cur >= 2 THEN tokens[cur - 1] ELSE NoToken
        nxt    == peek(tokens, cur)
        atEnd  == cur = Len(tokens)
    IN  CASE msg = "Expected number or '{'" -> nxt.k \notin SetStart
          [] msg = "Expected 'm' or 'km' for distance unit" ->
                \/ last.k \notin Units /\ before.k = "Number"
                \/ atEnd /\ last.k = "Number"
          [] msg = "Expected stroke name" ->
                \/ last.k # "Word" /\ before.k \in Units
                \/ atEnd /\ last.k \in Units
          [] msg = "Expected modifier in parentheses" ->
                \/ last.k # "Word" /\ before.k \in {"ParenOpen", "Comma"}
                \/ atEnd /\ last.k \in {"ParenOpen", "Comma"}
          [] msg = "Expected ',' or ')' after modifier" ->
                last.k = "Word" /\ nxt.k \notin {"Comma", "ParenClose"}
          [] msg = "Expected number or time after '@'" ->
                \/ last.k \notin {"Number", "Time"} /\ before.k = "At"
                \/ atEnd /\ last.k = "At"
          [] msg \in {"Invalid minutes", "Invalid seconds"} ->
                last.k = "Time" /\ before.k = "At" /\ ~WellFormedTime(last.s)
          [] msg = "Unexpected end of input in block" ->
                atEnd /\ Count(tokens, "BraceOpen") > Count(tokens, "BraceClose")
          [] OTHER -> FALSE

\* C9: parse returns one of two outcomes.  Ok(Workout) only with the whole
\* token sequence consumed, and then the top-level sets are the source's
\* sets in source order; or Err with the message of the first failure, the
\* cursor at that failure, no failed token before it, and no Workout, not
\* even the sets parsed before the failure.
C9_ParseOutcome ==
    /\ result.returned => (result.ok <=> pc = "parsed") /\ pc \in {"parsed", "failed"}
    /\ Parsed =>
          /\ current = Len(tokens)
          /\ WorkoutTokens(result.workout) = Recorded(tokens, 1)
    /\ Failed =>
          /\ DOMAIN result = {"returned", "ok", "err"}
          /\ sets = <<>> /\ ~total.called /\ ~dist.called
          /\ FailureSite(result.err, current)
          /\ \A j \in 1..(current - 1) : tokens[j].k # "Err"

\* parse returned Ok with two top-level sets of different kinds, a Block
\* and then a Statement.
C9_Witness ==
    /\ Parsed
    /\ current = Len(tokens)
    /\ Len(result.workout.sets) = 2
    /\ result.workout.sets[1].t = "Block" /\ Len(result.workout.sets[1].sets) = 1
    /\ result.workout.sets[2].t = "Statement"

-----------------------------------------------------------------------------
Keywords == {<<"x">>, <<"m">>, <<"k", "m">>, <<"s">>}

\* The text read as "<int>m <word>": digits, "m", one space, a generic word.
DistanceWord(text) ==
    LET d == RunEnd(text, 1, Digits)
    IN  [match |-> /\ d > 1 /\ d + 2 <= Len(text)
                   /\ text[d] = "m" /\ text[d + 1] = " "
                   /\ text[d + 2] \in Alpha
                   /\ \A j \in (d + 2)..Len(text) : text[j] \in WordChars,
         int   |-> SubSeq(text, 1, d - 1),
         word  |-> SubSeq(text, d + 2, Len(text))]

StatementOf(int, word) ==
    Statement(Distance(DecimalValue(int, <<>>), "Meters"), Stroke(word, <<>>),
              NoInterval)

\* C10 as stated: for every generic word w, "<int>m w" parses to a
\* Statement whose stroke name is w.
C10_AnyWordIsStroke ==
    LET in == DistanceWord(src)
    IN  result.returned /\ in.match /\ FitsU32(DecimalValue(in.int, <<>>)) =>
           /\ Parsed
           /\ result.workout = Workout(<<StatementOf(in.int, in.word)>>)

\* C10 amended: the same for every generic word other than exactly "x",
\* "m", "km" and "s", which lex as keywords, and every integer that fits a
\* u32.
C10_AnyNonKeywordIsStroke ==
    LET in == DistanceWord(src)
    IN  /\ result.returned /\ in.match /\ FitsU32(DecimalValue(in.int, <<>>))
        /\ in.word \notin Keywords
        => /\ Parsed
           /\ result.workout = Workout(<<StatementOf(in.int, in.word)>>)

\* "<int>m kms" parsed: a word that starts with a keyword is a stroke name.
C10_Witness ==
    /\ Parsed
    /\ DistanceWord(src).match
    /\ DistanceWord(src).word = <<"k", "m", "s">>
    /\ result.workout.sets[1].stroke.name = <<"k", "m", "s">>
-----------------------------------------------------------------------------
\* The position of the first "*/" at or after i, or 0 when there is none.
RECURSIVE FirstClose(_, _)
FirstClose(s, i) ==
    IF i + 1 > Len(s) THEN 0
    ELSE IF s[i] = "*" /\ s[i + 1] = "/" THEN i
    ELSE FirstClose(s, i + 1)

\* The text from position i on with its comments taken out, read left to
\* right: '#' or '//' to the end of the line, and '/*' up to the first
\* following '*/', which separates its neighbours like a space.  ok is
\* FALSE when a '/*' has no following '*/'.
RECURSIVE StripComments(_, _)
StripComments(s, i) ==
    IF i > Len(s) THEN [ok |-> TRUE, text |-> <<>>]
    ELSE LET c2 == IF i + 1 <= Len(s) THEN s[i + 1] ELSE ""
         IN  IF s[i] = "#" \/ (s[i] = "/" /\ c2 = "/")
             THEN StripComments(s, RunUntil(s, i, {"\n"}))
             ELSE IF s[i] = "/" /\ c2 = "*"
             THEN LET e == FirstClose(s, i + 2)
                      r == StripComments(s, e + 2)
                  IN  IF e = 0 THEN [ok |-> FALSE, text |-> <<>>]
                      ELSE [ok |-> r.ok, text |-> <<" ">> \o r.text]
             ELSE LET r == StripComments(s, i + 1)
                  IN  [ok |-> r.ok, text |-> <<s[i]>> \o r.text]

\* C11: comments produce no token and no lexing failure: the tokens of a
\* text are the tokens of the same text without its comments, whatever lies
\* between the comment delimiters.
C11_CommentsDiscarded ==
    StripComments(src, 1).ok => tokens = lexer(StripComments(src, 1).text, 1)
-----------------------------------------------------------------------------
\* A maximal word run: a letter, then letters, '.' or '-'.
IsWordRun(text) ==
    /\ text # <<>>
    /\ text[1] \in Alpha
    /\ \A i \in 1..Len(text) : text[i] \in WordChars

\* "<int>:<int>" with an optional 's' directly attached.
IsTime(text) ==
    LET c == RunEnd(text, 1, Digits)
        e == RunEnd(text, c + 1, Digits)
    IN  /\ c > 1 /\ c <= Len(text) /\ text[c] = ":"
        /\ e > c + 1
        /\ e > Len(text) \/ (e = Len(text) /\ text[e] = "s")

\* The token the claim gives a word run: the keyword when the run is
\* exactly a keyword, one Word otherwise.
KeywordOrWord(text) ==
    CASE text = <<"x">> -> Tok("Times")
      [] text = <<"m">> -> Tok("Meters")
      [] text = <<"k", "m">> -> Tok("Kilometers")
      [] text = <<"s">> -> Tok("Seconds")
      [] OTHER -> TokWord(text)

\* C12: longest match, then priority.  A text that is one word run lexes as
\* one token, the keyword when it is exactly 'x', 'm', 'km' or 's' and a
\* Word otherwise, also directly after a number; and '<int>:<int>' with an
\* optional attached 's' lexes as one Time token carrying the whole text.
C12_LongestMatchThenPriority ==
    LET d == RunEnd(src, 1, Digits)
        w == SubSeq(src, d, Len(src))
    IN  /\ IsWordRun(src) => tokens = <<KeywordOrWord(src)>>
        /\ d > 1 /\ IsWordRun(w) =>
              tokens = <<NumberToken(SubSeq(src, 1, d - 1)), KeywordOrWord(w)>>
        /\ IsTime(src) => tokens = <<TokTime(src)>>

\* A Time with its attached 's' and a number of more than one digit, as in
\* "25:1s", has been lexed as one token and handed to the parser.
C12_Witness ==
    /\ result.returned
    /\ IsTime(src) /\ src[Len(src)] = "s" /\ Len(src) >= 5
    /\ tokens = <<TokTime(src)>>
-----------------------------------------------------------------------------
\* The token sequence without its j-th token.
Remove(toks, j) == SubSeq(toks, 1, j - 1) \o SubSeq(toks, j + 1, Len(toks))

\* The positions of a Seconds token that directly follows '@' Number.
SecondsSuffixes ==
    {j \in 3..Len(tokens) : /\ tokens[j].k = "Seconds"
                            /\ tokens[j - 1].k = "Number"
                            /\ tokens[j - 2].k = "At"}

\* C13: the interval is optional and the 's' is cosmetic.  Where no '@'
\* follows, parse_interval gives None and consumes nothing, so a statement
\* ends with its stroke; after '@' a Number n gives Seconds(n) and the
\* cursor passes the number and the Seconds token when there is one; and a
\* statement parsed with the 's' equals the one parsed without it (the 's'
\* taken out where no second 's' follows it).
C13_IntervalOptional ==
    /\ \A cur \in 0..Len(tokens) :
          LET r == parse_interval(tokens, cur)
              s == parse_stroke(tokens, cur)
          IN  /\ peek(tokens, cur).k # "At" => r = Ok(NoInterval, cur)
              /\ s.ok /\ peek(tokens, s.cur).k # "At" /\ cur >= 2
                 /\ parse_statement(tokens, cur - 2).ok =>
                    /\ parse_statement(tokens, cur - 2).cur = s.cur
                    /\ parse_statement(tokens, cur - 2).v.interval = NoInterval
              /\ peek(tokens, cur).k = "At" /\ peek(tokens, cur + 1).k = "Number" =>
                    /\ r.ok
                    /\ r.v = Seconds(tokens[cur + 2].n)
                    /\ r.cur = IF peek(tokens, cur + 2).k = "Seconds"
                               THEN cur + 3 ELSE cur + 2
    /\ \A j \in SecondsSuffixes : \A cur \in 0..(j - 1) :
          LET with    == parse_statement(tokens, cur)
              without == parse_statement(Remove(tokens, j), cur)
          IN  with.ok /\ with.cur >= j /\ peek(tokens, j).k # "Seconds" =>
                 /\ without.ok
                 /\ without.v = with.v
                 /\ without.cur = with.cur - 1
    /\ Parsed =>
          \A node \in WorkoutNodes(result.workout) :
             node.t = "Statement" /\ Count(tokens, "At") = 0 =>
                node.interval = NoInterval

\* A source in which one statement has no '@' and another ends in
\* '@ n s' has been parsed to the end: the first has interval None, the
\* second Seconds(n), and the 's' was consumed.
C13_Witness ==
    /\ Parsed
    /\ current = Len(tokens)
    /\ SecondsSuffixes # {}
    /\ \E a, b \in WorkoutNodes(result.workout) :
          /\ a.t = "Statement" /\ a.interval = NoInterval
          /\ b.t = "Statement" /\ b.interval.t = "Seconds"
-----------------------------------------------------------------------------
\* The stroke names of the Statement leaves of the tree `set`.
StrokeNames(set) == {n.stroke.name : n \in {m \in Nodes(set) : m.t = "Statement"}}

ZeroRepetitions(workout) ==
    {n \in WorkoutNodes(workout) : n.t = "Repetition" /\ n.count = N(0)}

\* C14: a Repetition with count 0 contributes 0 to total_distance, and its
\* distribution has every stroke name of its child as a key with value 0;
\* at every node, and for the workout, the keys of stroke_distribution are
\* the stroke names of all Statement leaves below.
C14_ZeroCountKeepsKeys ==
    /\ Parsed =>
          \A node \in WorkoutNodes(result.workout) :
             LET d == Set_stroke_distribution(node)
                 t == Set_total_distance(node)
                 zero == node \in ZeroRepetitions(result.workout)
             IN  /\ d.ok => DOMAIN d.m = StrokeNames(node)
                 /\ zero /\ t.ok => t.v = N(0)
                 /\ zero /\ d.ok => \A n \in DOMAIN d.m : d.m[n] = N(0)
    /\ DistReturned =>
          DOMAIN dist.m = UNION {StrokeNames(result.workout.sets[i]) :
                                   i \in 1..Len(result.workout.sets)}
    /\ TotalReturned /\ DistReturned =>
          \A n \in DOMAIN dist.m :
             (\A i \in 1..Len(WorkoutLeafTerms(result.workout)) :
                 WorkoutLeafTerms(result.workout)[i].name = n =>
                    WorkoutLeafTerms(result.workout)[i].exact = N(0))
             => dist.m[n] = N(0)

\* stroke_distribution returned for a workout in which a zero-count
\* Repetition lies inside another Repetition or a Block: a name that occurs
\* only beneath it is a key with value 0, next to a key with a positive
\* value.
C14_Witness ==
    /\ DistReturned
    /\ \E z \in ZeroRepetitions(result.workout) :
          /\ \E i \in 1..Len(result.workout.sets) : z # result.workout.sets[i]
          /\ \E n \in StrokeNames(z) : dist.m[n] = N(0)
    /\ \E n \in DOMAIN dist.m : dist.m[n] # N(0)
-----------------------------------------------------------------------------
\* The number of blocks open after the first i tokens.
Depth(toks, i) ==
    Cardinality({j \in 1..i : toks[j].k = "BraceOpen"})
    - Cardinality({j \in 1..i : toks[j].k = "BraceClose"})

Nested(toks) ==
    /\ \A i \in 1..Len(toks) : Depth(toks, i) >= 0
    /\ Depth(toks, Len(toks)) = 0

\* The position of the '}' that closes the '{' at position i.
MatchClose(toks, i) ==
    CHOOSE j \in (i + 1)..Len(toks) :
       /\ Depth(toks, j) = Depth(toks, i - 1)
       /\ \A k \in (i + 1)..(j - 1) : Depth(toks, k) > Depth(toks, i - 1)

\* C15: parse returns Ok only when '{' and '}' are properly nested: an
\* unclosed '{' or a '}' with no open block gives Err.  '{' '}' is a legal
\* Block with no children, total distance 0 and an empty distribution.  On
\* success every '{' yields a Block of the AST that ends at its matching
\* '}' and whose children are the sets between the two, in source order.
C15_BracesNested ==
    /\ result.returned /\ ~Nested(tokens) => Failed
    /\ \A i \in 1..(Len(tokens) - 1) :
          tokens[i].k = "BraceOpen" /\ tokens[i + 1].k = "BraceClose" =>
             parse_block(tokens, i - 1) = Ok(Block(<<>>), i + 1)
    /\ Set_total_distance(Block(<<>>)) = Val(N(0))
    /\ Set_stroke_distribution(Block(<<>>)) = Dist(EmptyMap)
    /\ Parsed /\ tokens = <<Tok("BraceOpen"), Tok("BraceClose")>> =>
          /\ result.workout = Workout(<<Block(<<>>)>>)
          /\ total.called => total.ok /\ total.v = N(0)
          /\ dist.called => dist.ok /\ dist.m = EmptyMap
    /\ Parsed =>
          \A i \in 1..Len(tokens) :
             tokens[i].k = "BraceOpen" =>
                LET b == parse_block(tokens, i - 1)
                    c == MatchClose(tokens, i)
                IN  /\ b.ok /\ b.cur = c
                    /\ b.v \in WorkoutNodes(result.workout)
                    /\ b.v.t = "Block"
                    /\ Flatten([n \in 1..Len(b.v.sets) |-> TokensOf(b.v.sets[n])])
                          = Recorded(SubSeq(tokens, i + 1, c - 1), 1)

\* Both analyses returned for a workout with a Block that holds an empty
\* Block and then a Statement.
C15_Witness ==
    /\ TotalReturned /\ DistReturned
    /\ \E b \in WorkoutNodes(result.workout) :
          /\ b.t = "Block" /\ Len(b.sets) = 2
          /\ b.sets[1] = Block(<<>>)
          /\ b.sets[2].t = "Statement"
-----------------------------------------------------------------------------
\* The lengths k of a modifier list after the stroke name at position p:
\* '(' at p + 1, then k Words at p + 2, p + 4, ..., each followed by ',',
\* the last by ')'.  There is at most one such k.
ListLengths(toks, p) ==
    {k \in 1..Len(toks) :
        /\ p + 2 * k + 1 <= Len(toks)
        /\ \A j \in 1..k :
              /\ toks[p + 2 * j].k = "Word"
              /\ toks[p + 2 * j + 1].k = IF j = k THEN "ParenClose" ELSE "Comma"}

\* The positions of a stroke name: a Word after Number and a unit.
StrokePositions ==
    {p \in 3..Len(tokens) : /\ tokens[p].k = "Word"
                            /\ tokens[p - 1].k \in Units
                            /\ tokens[p - 2].k = "Number"}

\* C16: after a stroke name, no '(' gives an empty modifier list; a '('
\* must open a list of one or more Words separated by single commas and
\* closed by ')', and then the modifiers are those words in source order
\* and the cursor is after the ')'; '()', a trailing comma, a missing ')'
\* and any other continuation give Err, also for the whole parse.
C16_ModifierList ==
    /\ \A p \in 1..Len(tokens) :
          tokens[p].k = "Word" =>
             LET r  == parse_stroke(tokens, p - 1)
                 ks == ListLengths(tokens, p)
             IN  /\ Cardinality(ks) <= 1
                 /\ peek(tokens, p).k # "ParenOpen" =>
                       r = Ok(Stroke(tokens[p].s, <<>>), p)
                 /\ peek(tokens, p).k = "ParenOpen" =>
                       /\ r.ok <=> ks # {}
                       /\ \A k \in ks :
                             /\ r.cur = p + 2 * k + 1
                             /\ r.v = Stroke(tokens[p].s,
                                             [j \in 1..k |-> tokens[p + 2 * j].s])
                       /\ ~r.ok =>
                             r.err \in {"Expected modifier in parentheses",
                                        "Expected ',' or ')' after modifier"}
    /\ \A p \in StrokePositions :
          /\ result.returned /\ peek(tokens, p).k = "ParenOpen"
             /\ ListLengths(tokens, p) = {} => Failed
          /\ Parsed =>
                \E node \in WorkoutNodes(result.workout) :
                   /\ node.t = "Statement"
                   /\ node.stroke = parse_stroke(tokens, p - 1).v

\* parse failed at the ')' of a list with a trailing comma, as in
\* "7 km a ( b , )".
C16_Witness ==
    /\ Failed
    /\ result.err = "Expected modifier in parentheses"
    /\ current >= 2
    /\ tokens[current].k = "ParenClose"
    /\ tokens[current - 1].k = "Comma"
    /\ current - 2 >= 1 /\ tokens[current - 2].k = "Word"
-----------------------------------------------------------------------------
\* The digits of a Time text before the ':' and after it.
MinutesDigits(text) == SubSeq(text, 1, RunEnd(text, 1, Digits) - 1)

SecondsDigits(text) ==
    LET c == RunEnd(text, 1, Digits)
    IN  SubSeq(text, c + 1, RunEnd(text, c + 1, Digits) - 1)

\* The positions of a Time token that directly follows '@'.
TimePositions ==
    {p \in 2..Len(tokens) : tokens[p].k = "Time" /\ tokens[p - 1].k = "At"}

\* C17: for a Time token 'M:S' or 'M:Ss' after '@', parse_interval gives
\* MinutesSeconds{M, S} with the values of the digits as written, whatever
\* the seconds are, when both fit a u32, and Err when one does not; parse
\* then returns a Statement with that interval, or Err.
C17_TimeAsWritten ==
    \A p \in TimePositions :
       LET text == tokens[p].s
           M    == DecimalValue(MinutesDigits(text), <<>>)
           S    == DecimalValue(SecondsDigits(text), <<>>)
           r    == parse_interval(tokens, p - 2)
       IN  /\ text \in {MinutesDigits(text) \o <<":">> \o SecondsDigits(text),
                        MinutesDigits(text) \o <<":">> \o SecondsDigits(text) \o <<"s">>}
           /\ FitsU32(M) /\ FitsU32(S) => r = Ok(MinutesSeconds(M, S), p)
           /\ ~FitsU32(M) => ~r.ok /\ r.err = "Invalid minutes" /\ r.cur = p
           /\ FitsU32(M) /\ ~FitsU32(S) =>
                 ~r.ok /\ r.err = "Invalid seconds" /\ r.cur = p
           /\ result.returned /\ ~(FitsU32(M) /\ FitsU32(S)) => Failed
           /\ Parsed =>
                 \E node \in WorkoutNodes(result.workout) :
                    /\ node.t = "Statement"
                    /\ node.interval = MinutesSeconds(M, S)

\* parse returned a Statement whose interval came from a Time token with
\* an attached 's' and 75 seconds, kept as 75.
C17_Witness ==
    /\ Parsed
    /\ \E p \in TimePositions :
          /\ tokens[p].s[Len(tokens[p].s)] = "s"
          /\ SecondsDigits(tokens[p].s) = <<"7", "5">>
          /\ \E node \in WorkoutNodes(result.workout) :
                /\ node.t = "Statement"
                /\ node.interval.t = "MinutesSeconds"
                /\ node.interval.seconds = N(75)
-----------------------------------------------------------------------------
\* Every parse function started at cursor cur leaves the cursor between
\* cur and the number of tokens.
CursorInRange(r, cur) == cur <= r.cur /\ r.cur <= Len(tokens)

\* What holds of the cursor in every state, for every cursor position the
\* parser can be at: next advances by exactly one and not at all at the end
\* of the input; no parse function moves the cursor back or past the end; a
\* set that parses, as in one iteration of the top-level loop and of the
\* block loop, consumes at least one token, and so does an iteration of the
\* modifier loop, which consumes a Word or returns Err.
CursorAdvances ==
    /\ current <= Len(tokens)
    /\ \A cur \in 0..Len(tokens) :
          /\ next(tokens, cur).cur = IF cur < Len(tokens) THEN cur + 1 ELSE cur
          /\ cur = Len(tokens) => next(tokens, cur).tok = NoToken
          /\ CursorInRange(parse_set(tokens, cur), cur)
          /\ CursorInRange(parse_repetition(tokens, cur), cur)
          /\ CursorInRange(parse_block(tokens, cur), cur)
          /\ CursorInRange(parse_statement(tokens, cur), cur)
          /\ CursorInRange(parse_distance(tokens, cur), cur)
          /\ CursorInRange(parse_stroke(tokens, cur), cur)
          /\ CursorInRange(parse_interval(tokens, cur), cur)
          /\ parse_set(tokens, cur).ok => parse_set(tokens, cur).cur > cur
          /\ LET b == block_loop(tokens, cur, <<>>)
             IN  /\ CursorInRange(b, cur)
                 /\ b.ok => b.cur > cur
          /\ LET m == modifier_loop(tokens, cur, <<"a">>, <<>>)
             IN  /\ CursorInRange(m, cur)
                 /\ m.ok => m.cur >= cur + 2
                 /\ peek(tokens, cur).k # "Word" =>
                       ~m.ok /\ m.cur = next(tokens, cur).cur

\* The iterations of the parse loop so far that pushed a set, counted by
\* the sets pushed, are at most the tokens consumed, and a parse that has
\* not returned is in its loop, where the next iteration or the return
\* after the last one is defined for every token sequence.
IterationsBounded ==
    /\ Len(sets) <= current
    /\ ~result.returned => pc = "parse"
    /\ result.returned => pc \in {"parsed", "failed"}

\* C18: parse terminates on every token sequence.  The cursor never
\* decreases and never exceeds the number of tokens, it moves only in an
\* iteration of the parse loop, every such iteration consumes at least one
\* token or returns Err, and once parse has returned neither its result nor
\* the cursor changes: the number of tokens left is a measure that every
\* iteration lowers, so the loop ends after at most that many iterations.
C18_ParseTerminates ==
    /\ []CursorAdvances
    /\ []IterationsBounded
    /\ [][/\ current' >= current
          /\ current' # current => pc = "parse" /\ ~result.returned
          /\ pc = "parse" /\ pc' = "parse" =>
                current' > current /\ Len(sets') = Len(sets) + 1
          /\ pc = "parse" /\ current' = current => result'.returned
          /\ result.returned => result' = result /\ current' = current]_vars

\* parse returned Ok after two or more iterations of its loop, one of them
\* over a block, with the cursor at the number of tokens.
C18_Witness ==
    /\ Parsed
    /\ Len(result.workout.sets) >= 2
    /\ current = Len(tokens)
    /\ Count(tokens, "BraceOpen") >= 1
====
